---- MODULE Spec2Model ----
(***************************************************************************)
(* Model of stripes-bigram.py: a two-round MapReduce job (MRStripes).      *)
(* Round 1: mapper turns each input line into (word, stripe) pairs and     *)
(* reducer merges the stripes of a word into a probability distribution.   *)
(* Round 2: reducer_topten ranks the distribution of TARGET_WORD.          *)
(*                                                                         *)
(* Strings are sequences of one-character strings.  A Python dict is a     *)
(* sequence of <<key, value>> pairs in insertion order, which is the       *)
(* order dict.items() iterates in.  A float obtained by dividing two       *)
(* small integers is the fraction in lowest terms, <<num, den>>: two such  *)
(* quotients are equal (or ordered) as floats exactly when the fractions   *)
(* are.                                                                    *)
(***************************************************************************)
EXTENDS Integers, Sequences, FiniteSets, TLC

VARIABLES corpus, mapped, emitted, status, routed, ranked, output

vars == <<corpus, mapped, emitted, status, routed, ranked, output>>

(***************************************************************************)
(* Bounds of the model.                                                    *)
(***************************************************************************)
MaxRecords == 2
MaxTotalWords == 4
MaxDists == 2
MaxNeighbours == 11

(***************************************************************************)
(* Program constants.                                                      *)
(***************************************************************************)
TARGET_WORD == <<"m", "e">>
DUMCHAR == <<"*">>
TopTen == 10

\* string.punctuation, the characters the translator deletes (the grave
\* accent, which has no TLA+ string literal, is left out)
Punctuation ==
    {"!", "\"", "#", "$", "%", "&", "'", "(", ")", "*", "+", ",", "-", ".",
     "/", ":", ";", "<", "=", ">", "?", "@", "[", "\\", "]", "^", "_", "{",
     "|", "}", "~"}

translator(c) == c \in Punctuation

\* the characters str.strip() and str.split() treat as white space
Whitespace == {" ", "\t", "\n", "\r"}

UpperCase == <<"A", "B", "C", "D", "E", "F", "G", "H", "I", "J", "K", "L", "M",
               "N", "O", "P", "Q", "R", "S", "T", "U", "V", "W", "X", "Y", "Z">>
LowerCase == <<"a", "b", "c", "d", "e", "f", "g", "h", "i", "j", "k", "l", "m",
               "n", "o", "p", "q", "r", "s", "t", "u", "v", "w", "x", "y", "z">>

(***************************************************************************)
(* str methods used by mapper.                                             *)
(***************************************************************************)
\* s.split(",", 1): at most one split, at the first separator
SplitOnce(s, sep) ==
    IF \E i \in 1..Len(s) : s[i] = sep
    THEN LET i == CHOOSE k \in 1..Len(s) :
                     s[k] = sep /\ \A j \in 1..(k - 1) : s[j] # sep
         IN  <<SubSeq(s, 1, i - 1), SubSeq(s, i + 1, Len(s))>>
    ELSE <<s>>

\* s.translate(translator): delete every punctuation character
Translate(s) == SelectSeq(s, LAMBDA c : ~translator(c))

\* s.strip(): drop leading and trailing white space
RECURSIVE LStrip(_)
LStrip(s) ==
    IF s # <<>> /\ Head(s) \in Whitespace THEN LStrip(Tail(s)) ELSE s

RECURSIVE RStrip(_)
RStrip(s) ==
    IF s # <<>> /\ s[Len(s)] \in Whitespace
    THEN RStrip(SubSeq(s, 1, Len(s) - 1))
    ELSE s

Strip(s) == RStrip(LStrip(s))

UpperSet == {UpperCase[i] : i \in 1..Len(UpperCase)}

LowerChar(c) ==
    IF c \in UpperSet
    THEN LowerCase[CHOOSE i \in 1..Len(UpperCase) : UpperCase[i] = c]
    ELSE c

\* s.lower()
Lower(s) == [i \in 1..Len(s) |-> LowerChar(s[i])]

\* s.split(): split on runs of white space, no empty strings in the result
RECURSIVE SplitWords(_, _, _, _)
SplitWords(s, i, cur, acc) ==
    IF i > Len(s)
    THEN IF cur = <<>> THEN acc ELSE Append(acc, cur)
    ELSE IF s[i] \in Whitespace
         THEN SplitWords(s, i + 1, <<>>,
                         IF cur = <<>> THEN acc ELSE Append(acc, cur))
         ELSE SplitWords(s, i + 1, Append(cur, s[i]), acc)

Split(s) == SplitWords(s, 1, <<>>, <<>>)

(***************************************************************************)
(* dict operations (insertion-ordered).                                    *)
(***************************************************************************)
DictHas(d, k) == \E i \in 1..Len(d) : d[i][1] = k

DictGet(d, k) == d[CHOOSE i \in 1..Len(d) : d[i][1] = k][2]

\* d[k] = v: overwrite in place, or append a new key at the end
DictSet(d, k, v) ==
    IF DictHas(d, k)
    THEN [i \in 1..Len(d) |-> IF d[i][1] = k THEN <<k, v>> ELSE d[i]]
    ELSE Append(d, <<k, v>>)

\* del d[k]
DictDel(d, k) == SelectSeq(d, LAMBDA e : e[1] # k)

DictKeys(d) == {d[i][1] : i \in 1..Len(d)}

\* Counter: a missing key reads as 0
CounterGet(d, k) == IF DictHas(d, k) THEN DictGet(d, k) ELSE 0

(***************************************************************************)
(* mapper                                                                  *)
(***************************************************************************)
\* lines 66-68: the token list of a line that has a separator
Tokens(sublines) == Split(Lower(Strip(Translate(sublines[2]))))

\* lines 77-83: the stripe of the word at position word, its first occurrence
RECURSIVE NeighbourScan(_, _, _, _)
NeighbourScan(line, word, neighbour, t_stripes) ==
    IF neighbour > Len(line) THEN t_stripes
    ELSE NeighbourScan(line, word, neighbour + 1,
            IF line[neighbour - 1] = line[word]
            THEN IF DictHas(t_stripes, line[neighbour])
                 THEN DictSet(t_stripes, line[neighbour],
                              DictGet(t_stripes, line[neighbour]) + 1)
                 ELSE DictSet(t_stripes, line[neighbour], 1)
            ELSE t_stripes)

\* a scan that stops at the first neighbour
FirstStripeNextOnly(line, word) ==
    IF word < Len(line)
    THEN <<<<DUMCHAR, 1>>, <<line[word + 1], 1>>>>
    ELSE <<<<DUMCHAR, 1>>>>

FirstStripe(line, word) ==
    NeighbourScan(line, word, word + 1, <<<<DUMCHAR, 1>>>>)

\* a repeated word that yields an empty stripe
RepeatStripeEmpty == <<>>

\* line 87: the stripe of a repeated word
RepeatStripe == <<<<DUMCHAR, 1>>>>

\* lines 72-87: the pairs yielded for a token list, in order
RECURSIVE MapperLoop(_, _, _, _)
MapperLoop(line, word, processed, out) ==
    IF word > Len(line) THEN out
    ELSE IF line[word] \notin processed
         THEN MapperLoop(line, word + 1, processed \cup {line[word]},
                         Append(out, <<line[word], FirstStripe(line, word)>>))
         ELSE MapperLoop(line, word + 1, processed,
                         Append(out, <<line[word], RepeatStripe>>))

\* lines 43-89: sublines[1] raises IndexError when the line has no ','
mapper(line) ==
    LET sublines == SplitOnce(line, ",")
    IN  IF Len(sublines) < 2
        THEN [raised |-> TRUE, out |-> <<>>]
        ELSE [raised |-> FALSE,
              out |-> MapperLoop(Tokens(sublines), 1, {}, <<>>)]

(***************************************************************************)
(* reducer                                                                 *)
(***************************************************************************)
RECURSIVE GCD(_, _)
GCD(a, b) == IF b = 0 THEN a ELSE GCD(b, a % b)

\* a / b on integers, b > 0: the float, as the fraction in lowest terms
Div(a, b) == <<a \div GCD(a, b), b \div GCD(a, b)>>

FloatLess(p, q) == p[1] * q[2] < q[1] * p[2]

\* a merge that assigns (=) where the code adds (+=)
RECURSIVE MergeStripOverwrite(_, _, _)
MergeStripOverwrite(result, strip, i) ==
    IF i > Len(strip) THEN result
    ELSE MergeStripOverwrite(DictSet(result, strip[i][1], strip[i][2]),
                             strip, i + 1)

\* lines 107-108: result[key] += value for every item of one strip
RECURSIVE MergeStrip(_, _, _)
MergeStrip(result, strip, i) ==
    IF i > Len(strip) THEN result
    ELSE MergeStrip(DictSet(result, strip[i][1],
                            CounterGet(result, strip[i][1]) + strip[i][2]),
                    strip, i + 1)

\* line 110: the denominator, read after each strip is merged
TotalAfter(result) == CounterGet(result, DUMCHAR)

\* a loop that reads the denominator after the first strip only
RECURSIVE MergeLoopFirstTotal(_, _, _, _)
MergeLoopFirstTotal(strips, i, result, total_w) ==
    IF i > Len(strips) THEN [result |-> result, total_w |-> total_w]
    ELSE LET merged == MergeStrip(result, strips[i], 1)
         IN  MergeLoopFirstTotal(strips, i + 1, merged,
                 IF i = 1 THEN TotalAfter(merged) ELSE total_w)

\* lines 104-110: the loop over the strips in arrival order.  total_w is
\* unbound before the first strip; reducer is called with at least one.
RECURSIVE MergeLoop(_, _, _, _)
MergeLoop(strips, i, result, total_w) ==
    IF i > Len(strips) THEN [result |-> result, total_w |-> total_w]
    ELSE LET merged == MergeStrip(result, strips[i], 1)
         IN  MergeLoop(strips, i + 1, merged, TotalAfter(merged))

\* lines 112-113: every value, the one of DUMCHAR included, is divided
Normalize(result, total_w) ==
    [i \in 1..Len(result) |-> <<result[i][1], Div(result[i][2], total_w)>>]

\* lines 91-118: the pair reducer yields
reducer(word, strips) ==
    LET m == MergeLoop(strips, 1, <<>>, 0)
    IN  <<word, DictDel(Normalize(m.result, m.total_w), DUMCHAR)>>

(***************************************************************************)
(* reducer_topten                                                          *)
(***************************************************************************)
\* sorted(items, key=itemgetter(1), reverse=True): stable, so items of equal
\* value keep the order they have in items
RECURSIVE SortedDesc(_, _, _)
SortedDesc(items, i, acc) ==
    IF i > Len(items) THEN acc
    ELSE LET before == {j \in 1..Len(acc) : FloatLess(acc[j][2], items[i][2])}
             at == IF before = {} THEN Len(acc) + 1
                   ELSE CHOOSE j \in before : \A k \in before : j <= k
         IN  SortedDesc(items, i + 1,
                        SubSeq(acc, 1, at - 1) \o <<items[i]>>
                            \o SubSeq(acc, at, Len(acc)))

Sorted(probdict) == SortedDesc(probdict, 1, <<>>)

\* lines 125-127: each probdict overwrites sorted_dict and max_terms (both
\* unbound before the first; a reducer is called with at least one value)
RECURSIVE TopTenLoop(_, _, _)
TopTenLoop(probs, i, cur) ==
    IF i > Len(probs) THEN cur
    ELSE TopTenLoop(probs, i + 1,
                    [sorted_dict |-> Sorted(probs[i]),
                     max_terms |-> Len(Sorted(probs[i]))])

\* no cap on the number of terms
CappedNever(max_terms) == max_terms

\* lines 128-129
Capped(max_terms) == IF max_terms > TopTen THEN TopTen ELSE max_terms

\* no filter on the key
IsTargetAlways(word) == TRUE

\* line 124: the filter on the key
IsTarget(word) == word = TARGET_WORD

\* lines 120-131: the (rank, item) pairs reducer_topten yields, in order
reducer_topten(word, probs) ==
    IF IsTarget(word)
    THEN LET last == TopTenLoop(probs, 1,
                                [sorted_dict |-> <<>>, max_terms |-> 0])
         IN  [rank \in 1..Capped(last.max_terms) |->
                 <<rank, last.sorted_dict[rank]>>]
    ELSE <<>>

(***************************************************************************)
(* The shuffle: all values of a key reach one reducer call, in any order.  *)
(***************************************************************************)
RECURSIVE Concat(_, _)
Concat(f, i) == IF i = 0 THEN <<>> ELSE Concat(f, i - 1) \o f[i]

\* every pair the mappers have yielded
Emitted == Concat(emitted, Len(emitted))

Keys == {Emitted[i][1] : i \in 1..Len(Emitted)}

ValuesOf(pairs, key) ==
    LET sel == SelectSeq(pairs, LAMBDA e : e[1] = key)
    IN  [i \in 1..Len(sel) |-> sel[i][2]]

RemoveAt(s, i) == SubSeq(s, 1, i - 1) \o SubSeq(s, i + 1, Len(s))

\* the orders in which the values of the sequence s can arrive (equal
\* values are taken once as the first to arrive)
RECURSIVE Arrivals(_)
Arrivals(s) ==
    IF s = <<>> THEN {<<>>}
    ELSE UNION {{<<s[i]>> \o t : t \in Arrivals(RemoveAt(s, i))} :
                    i \in {k \in 1..Len(s) :
                              \A j \in 1..(k - 1) : s[j] # s[k]}}

(***************************************************************************)
(* Input lines.                                                            *)
(***************************************************************************)
Vocabulary == {<<"m", "e">>, <<"a">>, <<"b">>}

UpperChar(c) ==
    IF \E i \in 1..Len(LowerCase) : LowerCase[i] = c
    THEN UpperCase[CHOOSE i \in 1..Len(LowerCase) : LowerCase[i] = c]
    ELSE c

RECURSIVE Join(_, _, _)
Join(words, glue, i) ==
    IF i > Len(words) THEN <<>>
    ELSE (IF i = 1 THEN <<UpperChar(words[1][1])>> \o Tail(words[1])
          ELSE glue \o words[i]) \o Join(words, glue, i + 1)

\* an input line: an identifier, then the text, as in  7,Me, a, b!
\* Without the separator the line holds no ',' at all:  7 Me a b!
\* With no words the text is empty:  7,
RawLine(hasSep, words) ==
    (IF hasSep THEN <<"7", ",">> \o Join(words, <<",", " ">>, 1)
     ELSE <<"7", " ">> \o Join(words, <<" ">>, 1))
        \o (IF words = <<>> THEN <<>> ELSE <<"!">>)

\* the corpus of n lines that holds the words, cut into lines after the
\* positions cuts[1] <= ... <= cuts[n - 1]
Corpus(n, words, cuts, hasSep) ==
    [i \in 1..n |->
        RawLine(hasSep[i],
                SubSeq(words, IF i = 1 THEN 1 ELSE cuts[i - 1] + 1,
                       IF i = n THEN Len(words) ELSE cuts[i]))]

(***************************************************************************)
(* The job: steps() runs mapper and reducer, then reducer_topten.          *)
(***************************************************************************)
EmptyMap == [k \in {} |-> <<>>]

\* a corpus of at most MaxRecords lines and MaxTotalWords words
Init ==
    /\ \E n \in 1..MaxRecords, k \in 0..MaxTotalWords :
          \E words \in [1..k -> Vocabulary], cuts \in [1..(n - 1) -> 0..k],
             hasSep \in [1..n -> BOOLEAN] :
              /\ \A i \in 1..(n - 2) : cuts[i] <= cuts[i + 1]
              /\ corpus = Corpus(n, words, cuts, hasSep)
    /\ mapped = {}
    /\ emitted = [i \in 1..Len(corpus) |-> <<>>]
    /\ status = "running"
    /\ routed = EmptyMap
    /\ ranked = {}
    /\ output = <<>>

\* one mapper call, on any line not yet mapped; an exception fails the job
Map(i) ==
    /\ status = "running"
    /\ i \notin mapped
    /\ LET r == mapper(corpus[i])
       IN  IF r.raised
           THEN /\ status' = "failed"
                /\ UNCHANGED <<mapped, emitted>>
           ELSE /\ mapped' = mapped \cup {i}
                /\ emitted' = [emitted EXCEPT ![i] = r.out]
                /\ UNCHANGED status
    /\ UNCHANGED <<corpus, routed, ranked, output>>

\* one reducer call, for a key of round 1, once every line is mapped
Reduce(word) ==
    /\ status = "running"
    /\ mapped = 1..Len(corpus)
    /\ word \in Keys \ DOMAIN routed
    /\ \E strips \in Arrivals(ValuesOf(Emitted, word)) :
          routed' = (word :> <<reducer(word, strips)[2]>>) @@ routed
    /\ UNCHANGED <<corpus, mapped, emitted, status, ranked, output>>

\* one reducer_topten call, for a key of round 2, once every key of
\* round 1 is reduced
ReduceTopTen(word) ==
    /\ status = "running"
    /\ mapped = 1..Len(corpus)
    /\ Keys \subseteq DOMAIN routed
    /\ word \in DOMAIN routed \ ranked
    /\ \E probs \in Arrivals(routed[word]) :
          output' = output \o reducer_topten(word, probs)
    /\ ranked' = ranked \cup {word}
    /\ UNCHANGED <<corpus, mapped, emitted, status, routed>>

Next ==
    \/ \E i \in 1..Len(corpus) : Map(i)
    \/ \E word \in Keys : Reduce(word)
    \/ \E word \in DOMAIN routed : ReduceTopTen(word)

Spec == Init /\ [][Next]_vars

Done ==
    /\ status = "running"
    /\ mapped = 1..Len(corpus)
    /\ DOMAIN routed = Keys
    /\ ranked = DOMAIN routed

(***************************************************************************)
(* reducer_topten on its own: one key and the distributions routed to it,  *)
(* one or several (duplicate keys, a partition run twice).                 *)
(***************************************************************************)
RECURSIVE SumTo(_, _)
SumTo(f, n) == IF n = 0 THEN 0 ELSE SumTo(f, n - 1) + f[n]

\* a distribution over the n neighbours "a", "b", ...: the keys inserted in
\* ascending or descending order, the counts all 1 or cycling 2, 3, 1
GenDist(n, descending, flat) ==
    LET count == [i \in 1..n |-> IF flat THEN 1 ELSE (i % 3) + 1]
        key == [i \in 1..n |->
                   <<LowerCase[IF descending THEN n + 1 - i ELSE i]>>]
    IN  [i \in 1..n |-> <<key[i], Div(count[i], SumTo(count, n))>>]

Dists ==
    {GenDist(n, descending, flat) :
        n \in 0..MaxNeighbours, descending \in BOOLEAN, flat \in BOOLEAN}

DistLists == UNION {[1..n -> Dists] : n \in 1..MaxDists}

InitTop ==
    /\ corpus = <<>>
    /\ mapped = {}
    /\ emitted = <<>>
    /\ status = "running"
    /\ \E word \in {TARGET_WORD, <<"a">>}, probs \in DistLists :
          routed = (word :> probs)
    /\ ranked = {}
    /\ output = <<>>

NextTop == \E word \in DOMAIN routed : ReduceTopTen(word)

SpecTop == InitTop /\ [][NextTop]_vars

(***************************************************************************)
(* What the corpus holds, counted directly on its token lists.             *)
(***************************************************************************)
HasSeparator(line) == \E i \in 1..Len(line) : line[i] = ","

TokensOf(line) ==
    IF HasSeparator(line) THEN Tokens(SplitOnce(line, ",")) ELSE <<>>

\* the token list of every line of the corpus
TokenLists == [i \in 1..Len(corpus) |-> TokensOf(corpus[i])]

Positions(toks) ==
    UNION {{<<i, p>> : p \in 1..Len(toks[i])} : i \in 1..Len(toks)}

OccurrencesOf(toks, w) == {x \in Positions(toks) : toks[x[1]][x[2]] = w}

BigramsOf(toks, w, v) ==
    {x \in Positions(toks) :
        /\ toks[x[1]][x[2]] = w
        /\ x[2] < Len(toks[x[1]])
        /\ toks[x[1]][x[2] + 1] = v}

WordsOf(toks) == {toks[x[1]][x[2]] : x \in Positions(toks)}

Followers(toks, w) == {v \in WordsOf(toks) : BigramsOf(toks, w, v) # {}}

\* the lines whose last token is w
EndingWith(toks, w) ==
    {i \in 1..Len(toks) : toks[i] # <<>> /\ toks[i][Len(toks[i])] = w}

NoDuplicateKeys(d) == Cardinality(DictKeys(d)) = Len(d)

AsMapping(d) == [k \in DictKeys(d) |-> DictGet(d, k)]

RoundOneOver ==
    status = "running" /\ mapped = 1..Len(corpus) /\ DOMAIN routed = Keys

RECURSIVE SumValues(_, _)
SumValues(d, n) == IF n = 0 THEN 0 ELSE SumValues(d, n - 1) + d[n][2]

FloatAdd(p, q) == Div(p[1] * q[2] + q[1] * p[2], p[2] * q[2])

RECURSIVE SumProbs(_, _)
SumProbs(d, n) ==
    IF n = 0 THEN <<0, 1>> ELSE FloatAdd(SumProbs(d, n - 1), d[n][2])

\* the stripes the mappers have yielded for w, in the order of the lines
StripesOf(w) == ValuesOf(Emitted, w)

\* code points of the characters a token can hold, ascending
CodeOrder == <<"0", "1", "2", "3", "4", "5", "6", "7", "8", "9">> \o LowerCase

Ord(c) == CHOOSE i \in 1..Len(CodeOrder) : CodeOrder[i] = c

LexLess(s, t) ==
    \E i \in 1..(Len(s) + 1) :
        /\ \A j \in 1..(i - 1) : j <= Len(t) /\ s[j] = t[j]
        /\ i <= Len(t)
        /\ i <= Len(s) => Ord(s[i]) < Ord(t[i])

(***************************************************************************)
(* C1: for every word w of the corpus, the reducer yields exactly one      *)
(* distribution, whose keys are exactly the words that immediately follow  *)
(* w somewhere in the corpus, each with the probability (number of places  *)
(* where it follows w) / (number of occurrences of w); '*' is not a key.   *)
(***************************************************************************)
C1_Distribution ==
    routed # EmptyMap =>
        LET toks == TokenLists
        IN  /\ \A w \in DOMAIN routed :
                  /\ w \in WordsOf(toks)
                  /\ Len(routed[w]) = 1
                  /\ LET dist == routed[w][1]
                     IN  /\ NoDuplicateKeys(dist)
                         /\ DictKeys(dist) = Followers(toks, w)
                         /\ DUMCHAR \notin DictKeys(dist)
                         /\ \A v \in DictKeys(dist) :
                               DictGet(dist, v) =
                                   Div(Cardinality(BigramsOf(toks, w, v)),
                                       Cardinality(OccurrencesOf(toks, w)))
            /\ RoundOneOver => DOMAIN routed = WordsOf(toks)

C1_Witness ==
    /\ RoundOneOver
    /\ \E w \in DOMAIN routed :
          /\ Len(StripesOf(w)) >= 2
          /\ Len(routed[w][1]) >= 2
          /\ \E i \in 1..Len(routed[w][1]) : routed[w][1][i][2] = <<1, 2>>

(***************************************************************************)
(* C2 as stated: in every distribution the reducer yields no probability   *)
(* is negative and the probabilities sum to 1; on the counts, the merged   *)
(* neighbour counts sum to the merged count of '*'.                        *)
(***************************************************************************)
C2_SumsToOne ==
    \A w \in DOMAIN routed :
        LET m == MergeLoop(StripesOf(w), 1, <<>>, 0)
            counts == DictDel(m.result, DUMCHAR)
        IN  /\ \A i \in 1..Len(routed[w][1]) : routed[w][1][i][2][1] >= 0
            /\ SumProbs(routed[w][1], Len(routed[w][1])) = <<1, 1>>
            /\ SumValues(counts, Len(counts)) = m.total_w

(***************************************************************************)
(* C2 amended: no probability is negative; the merged neighbour counts sum *)
(* to the merged count of '*' minus the number of lines that end with the  *)
(* word, so the probabilities sum to that number over the count of '*':    *)
(* at most 1, and 1 exactly when no line ends with the word.               *)
(***************************************************************************)
C2_SumsToShare ==
    routed # EmptyMap =>
        LET toks == TokenLists
        IN  \A w \in DOMAIN routed :
                LET ends == Cardinality(EndingWith(toks, w))
                IN  /\ \A i \in 1..Len(routed[w][1]) :
                          routed[w][1][i][2][1] >= 0
                    /\ \A strips \in Arrivals(StripesOf(w)) :
                          LET m == MergeLoop(strips, 1, <<>>, 0)
                              counts == DictDel(m.result, DUMCHAR)
                          IN  /\ m.total_w >= 1
                              /\ SumValues(counts, Len(counts))
                                     = m.total_w - ends
                              /\ SumProbs(routed[w][1], Len(routed[w][1]))
                                     = Div(m.total_w - ends, m.total_w)

C2_Witness ==
    \E w \in DOMAIN routed :
        /\ Cardinality(EndingWith(TokenLists, w)) = 1
        /\ Len(StripesOf(w)) = 2
        /\ SumProbs(routed[w][1], Len(routed[w][1])) = <<1, 2>>

(***************************************************************************)
(* C3: for a key and its stripes, every arrival order gives the reducer    *)
(* the same distribution (same keys, same probability for each key), and   *)
(* the denominator is the count of '*' summed over all the stripes.        *)
(***************************************************************************)
C3_OrderIndependent ==
    \A w \in DOMAIN routed :
        \A strips \in Arrivals(StripesOf(w)) :
            /\ AsMapping(reducer(w, strips)[2]) = AsMapping(routed[w][1])
            /\ MergeLoop(strips, 1, <<>>, 0).total_w
                   = SumTo([i \in 1..Len(strips) |->
                               CounterGet(strips[i], DUMCHAR)], Len(strips))

C3_Witness ==
    \E w \in DOMAIN routed :
        /\ Cardinality(Arrivals(StripesOf(w))) >= 3
        /\ Len(routed[w][1]) >= 2
        /\ routed[w][1] # reducer(w, StripesOf(w))[2]

(***************************************************************************)
(* C4: for one line, the mapper yields one stripe per token position, in   *)
(* order, keyed by the token there and holding '*' with count 1, so the    *)
(* '*' counts of a word add up to its occurrences in the line; the stripe  *)
(* of a position that is not the word's first holds nothing else.          *)
(***************************************************************************)
C4_SelfCounts ==
    \A i \in mapped :
        LET toks == TokensOf(corpus[i])
            selfs == [p \in 1..Len(emitted[i]) |->
                         <<emitted[i][p][1],
                           CounterGet(emitted[i][p][2], DUMCHAR)>>]
        IN  /\ Len(emitted[i]) = Len(toks)
            /\ \A p \in 1..Len(toks) :
                  /\ emitted[i][p][1] = toks[p]
                  /\ NoDuplicateKeys(emitted[i][p][2])
                  /\ selfs[p][2] = 1
                  /\ (\E q \in 1..(p - 1) : toks[q] = toks[p])
                         => emitted[i][p][2] = <<<<DUMCHAR, 1>>>>
            /\ \A w \in {toks[p] : p \in 1..Len(toks)} :
                  SumTo(ValuesOf(selfs, w), Len(ValuesOf(selfs, w)))
                      = Cardinality({p \in 1..Len(toks) : toks[p] = w})

C4_Witness ==
    \E i \in mapped :
        /\ Len(emitted[i]) = 3
        /\ emitted[i][1][1] = emitted[i][3][1]
        /\ Len(emitted[i][1][2]) = 2
        /\ emitted[i][3][2] = <<<<DUMCHAR, 1>>>>

(***************************************************************************)
(* C5: the ranked list reducer_topten yields for the distributions of a    *)
(* key is computed from all of them, so it is the same for every order in  *)
(* which they arrive.                                                      *)
(***************************************************************************)
C5_AllDistributionsUsed ==
    \A w \in ranked :
        \A probs \in Arrivals(routed[w]) : output = reducer_topten(w, probs)

(***************************************************************************)
(* C6: the entries reducer_topten yields are in descending order of        *)
(* probability, and entries of equal probability are in ascending          *)
(* lexicographic order of their neighbour word.                            *)
(***************************************************************************)
C6_Ranking ==
    \A i \in 1..Len(output) : \A j \in (i + 1)..Len(output) :
        LET a == output[i][2]
            b == output[j][2]
        IN  /\ ~FloatLess(a[2], b[2])
            /\ a[2] = b[2] => LexLess(a[1], b[1])

\* the output of the run that delivers the stripes in the order of the lines
ReferenceOutput ==
    IF TARGET_WORD \in Keys
    THEN reducer_topten(TARGET_WORD,
             <<reducer(TARGET_WORD, ValuesOf(Emitted, TARGET_WORD))[2]>>)
    ELSE <<>>

(***************************************************************************)
(* C7: for a corpus, the output of the job is the same in every run,       *)
(* whatever the order the lines are mapped in and the order the stripes    *)
(* of a key arrive in: every run ends with the output of the run that      *)
(* delivers the stripes in the order of the lines.                         *)
(***************************************************************************)
C7_SameOutput == Done => output = ReferenceOutput

(***************************************************************************)
(* C8: for a distribution of the target word with n neighbours,            *)
(* reducer_topten yields min(10, n) entries, ranked 1, 2, ... in order,    *)
(* each a (neighbour, probability) pair of the distribution, no pair       *)
(* twice; nothing when n = 0.                                              *)
(***************************************************************************)
C8_TopTen ==
    \A w \in ranked :
        w = TARGET_WORD =>
            \E k \in 1..Len(routed[w]) :
                LET dist == routed[w][k]
                    n == Cardinality(DictKeys(dist))
                IN  /\ Len(output) = IF n < 10 THEN n ELSE 10
                    /\ \A r \in 1..Len(output) :
                          /\ output[r][1] = r
                          /\ \E j \in 1..Len(dist) : dist[j] = output[r][2]
                          /\ \A q \in 1..Len(output) :
                                q # r => output[q][2] # output[r][2]

C8_Witness ==
    /\ TARGET_WORD \in ranked
    /\ Len(routed[TARGET_WORD]) = 1
    /\ Len(routed[TARGET_WORD][1]) = 11
    /\ Len(output) = 10
    /\ output[10][2] \in {routed[TARGET_WORD][1][j] : j \in 1..11}

(***************************************************************************)
(* C9: the mapper does not raise on a line without ',': the job goes on,   *)
(* and such a line, like a line whose text is empty, yields no stripe.     *)
(***************************************************************************)
C9_MalformedSkipped ==
    /\ status # "failed"
    /\ \A i \in mapped : TokensOf(corpus[i]) = <<>> => emitted[i] = <<>>

(***************************************************************************)
(* C10: reducer_topten yields entries for the target word only: nothing    *)
(* for any other key, so the output is empty until the target word is      *)
(* ranked, and stays empty when the corpus does not hold the target word.  *)
(***************************************************************************)
C10_TargetOnly ==
    /\ \A w \in DOMAIN routed :
          w # TARGET_WORD =>
              \A probs \in Arrivals(routed[w]) :
                  reducer_topten(w, probs) = <<>>
    /\ output # <<>> => TARGET_WORD \in ranked
    /\ ranked # {} =>
          (TARGET_WORD \notin WordsOf(TokenLists) => output = <<>>)

C10_Witness ==
    /\ Done
    /\ Cardinality(ranked) >= 2
    /\ TARGET_WORD \notin WordsOf(TokenLists)
    /\ \E w \in ranked : routed[w][1] # <<>>
    /\ output = <<>>

====
